---- MODULE Spec2Model ----
(***************************************************************************)
(* A model of create_sankey.py: the script that loads a node/link graph,   *)
(* hides the leaf nodes, reindexes the surviving nodes and links, and      *)
(* builds the hover summaries of a Sankey diagram.                         *)
(*                                                                         *)
(* Python lists are sequences; a Python index i (0-based) addresses        *)
(* element i + 1 of the sequence.  Python dicts are functions: a lookup    *)
(* d[k] raises KeyError exactly when k is not in DOMAIN d.                 *)
(***************************************************************************)
EXTENDS Integers, Sequences, FiniteSets, TLC

(***************************************************************************)
(* Bounds of the explored inputs.                                          *)
(***************************************************************************)
MaxNodes == 3
MaxLinks == 2

\* The ids and display names of the nodes of an input, by position.  Ids are
\* unique (the input's data model); names are not.
NodeIdSeq == <<"A", "B", "C", "D", "E", "F">>
NodeNameSeq == <<"Alpha", "Beta", "Alpha", "Gamma", "Beta", "Delta">>
\* A node id no input declares.
UnknownId == "X"
\* The link values of the explored inputs (non-negative numbers), by the
\* position k of the link: all different (1, 2, 4, ...), or 1, 0, 1, ...
ValueSchemes == {"distinct", "small"}
ValueAt(scheme, k) == IF scheme = "distinct" THEN 2 ^ (k - 1) ELSE k % 2

\* len(base_colors)
PaletteSize == 45

VARIABLES
    data,                 \* the parsed budget.json
    pc,                   \* the statement the script is at
    raised,               \* 0, or the source line of the uncaught exception
    stdout,               \* the lines printed so far
    node_ids, node_labels, node_id_to_index,
    li,                   \* number of links the link loop has consumed
    all_sources, all_targets, all_values,
    leftmost_nodes, rightmost_nodes, hidden_nodes,
    visible_node_ids, visible_node_labels, old_to_new_index,
    sources, targets, values,
    hover_labels,
    node_flows,           \* per visible node, the locals of the annotator loop
    node_hover_labels,
    output_file           \* <<>>, or the one figure written to budget_sankey.html

vars == <<data, pc, raised, stdout, node_ids, node_labels, node_id_to_index, li,
          all_sources, all_targets, all_values,
          leftmost_nodes, rightmost_nodes, hidden_nodes,
          visible_node_ids, visible_node_labels, old_to_new_index,
          sources, targets, values, hover_labels, node_flows,
          node_hover_labels, output_file>>

loaderVars == <<node_ids, node_labels, node_id_to_index>>
linkVars == <<li, all_sources, all_targets, all_values>>
classVars == <<leftmost_nodes, rightmost_nodes, hidden_nodes>>
reduceVars == <<visible_node_ids, visible_node_labels, old_to_new_index,
                sources, targets, values>>
annotVars == <<hover_labels, node_flows, node_hover_labels>>

(***************************************************************************)
(* The input documents.                                                    *)
(***************************************************************************)
Has(d, k) == k \in DOMAIN d

NodeRec(i) == [id |-> NodeIdSeq[i], name |-> NodeNameSeq[i]]
NodeList(n) == [i \in 1..n |-> NodeRec(i)]
Endpoints(n) == {NodeIdSeq[i] : i \in 1..n} \cup {UnknownId}
LinkLists(n, m) ==
    {[k \in 1..m |-> [source |-> ep[k][1], target |-> ep[k][2], value |-> ValueAt(scheme, k)]] :
        ep \in [1..m -> Endpoints(n) \X Endpoints(n)], scheme \in ValueSchemes}

WellFormed(d) ==
    \E n \in 0..MaxNodes, m \in 0..MaxLinks : \E ls \in LinkLists(n, m) :
        d = [nodes |-> NodeList(n), links |-> ls]

\* A document without one of its two collections.
NoCollection(d) ==
    \/ d = [links |-> <<>>]
    \/ \E n \in 0..MaxNodes : d = [nodes |-> NodeList(n)]

\* A document one node of which lacks its id or its name.
Drop(r, f) == [k \in (DOMAIN r) \ {f} |-> r[k]]
BadNode(d) ==
    \E n \in 1..MaxNodes : \E k \in 1..n, f \in {"id", "name"} :
        d = [nodes |-> [NodeList(n) EXCEPT ![k] = Drop(@, f)], links |-> <<>>]

\* A document whose last link lacks one field.  The script never reads past
\* the first such link, nor uses the other fields of it.
BadLink(d) ==
    \E n \in 0..MaxNodes, m \in 0..(MaxLinks - 1) :
        \E ls \in LinkLists(n, m), f \in {"source", "target", "value"} :
            d = [nodes |-> NodeList(n),
                 links |-> Append(ls, Drop([source |-> UnknownId, target |-> UnknownId,
                                            value |-> 1], f))]

Doc(d) == WellFormed(d) \/ NoCollection(d) \/ BadNode(d) \/ BadLink(d)

(***************************************************************************)
(* Output lines and formatted text.                                        *)
(***************************************************************************)
Line(kind, a, b, n) == [kind |-> kind, a |-> a, b |-> b, n |-> n]

\* f"{value:,.2f} zl" of a whole number: thousands groups, two decimals, unit.
FormatAmount(value) ==
    [thousands |-> value \div 1000, units |-> value % 1000, cents |-> 0, unit |-> "zl"]

Part(tag, name, value) == [tag |-> tag, name |-> name, amount |-> FormatAmount(value)]

(***************************************************************************)
(* Loader (lines 12-36).                                                   *)
(***************************************************************************)
\* {node_id: idx for idx, node_id in enumerate(node_ids)}: the last wins.
NodeIdToIndex(ids) ==
    [id \in {ids[i] : i \in 1..Len(ids)} |->
        CHOOSE i \in 0..(Len(ids) - 1) :
            ids[i + 1] = id /\ \A j \in 0..(Len(ids) - 1) : ids[j + 1] = id => j <= i]

SkipLinkSourceOnly(source_id, target_id, idx) == source_id \notin DOMAIN idx

SkipLink(source_id, target_id, idx) ==
    source_id \notin DOMAIN idx \/ target_id \notin DOMAIN idx

\* One iteration of the link loop on a link that has its three fields, from
\* the lists built so far.  line is the line that raised, 0 if none did.
ResolveLink(acc, link, idx) ==
    IF SkipLink(link.source, link.target, idx)
    THEN [acc EXCEPT !.out = Append(@, Line("Warning", link.source, link.target, 0))]
    ELSE IF link.source \notin DOMAIN idx THEN [acc EXCEPT !.line = 31]
    ELSE IF link.target \notin DOMAIN idx THEN [acc EXCEPT !.line = 32]
    ELSE [acc EXCEPT !.all_sources = Append(@, idx[link.source]),
                     !.all_targets = Append(@, idx[link.target]),
                     !.all_values = Append(@, link.value)]

(***************************************************************************)
(* Leaf classifier (lines 38-52).                                          *)
(***************************************************************************)
SeqSet(s) == {s[k] : k \in 1..Len(s)}

LeftmostOffByOne(n, tgts) == (1..n) \ SeqSet(tgts)

\* has_incoming = set(all_targets); leftmost_nodes = set(range(n)) - has_incoming
Leftmost(n, tgts) == (0..(n - 1)) \ SeqSet(tgts)

\* has_outgoing = set(all_sources); rightmost_nodes = set(range(n)) - has_outgoing
Rightmost(n, srcs) == (0..(n - 1)) \ SeqSet(srcs)

HiddenBoth(leftmost, rightmost) == leftmost \cap rightmost

HiddenLeftOnly(leftmost, rightmost) == leftmost

HiddenNodes(leftmost, rightmost) == leftmost \cup rightmost

\* Leftmost as the comment of line 42 words it: "have outgoing but no incoming".
LeafNodesAsCommented(n, srcs, tgts) ==
    LET leftmost == Leftmost(n, tgts) \cap SeqSet(srcs)
        rightmost == Rightmost(n, srcs)
    IN  [leftmost |-> leftmost, rightmost |-> rightmost,
         hidden |-> HiddenNodes(leftmost, rightmost)]

\* Lines 39-48.
LeafNodes(n, srcs, tgts) ==
    LET leftmost == Leftmost(n, tgts)
        rightmost == Rightmost(n, srcs)
    IN  [leftmost |-> leftmost, rightmost |-> rightmost,
         hidden |-> HiddenNodes(leftmost, rightmost)]

Report(hidden, leftmost, rightmost) ==
    <<Line("Removing", "", "", Cardinality(hidden)),
      Line("Leftmost", "", "", Cardinality(leftmost)),
      Line("Rightmost", "", "", Cardinality(rightmost))>>

(***************************************************************************)
(* Graph reducer (lines 54-77).                                            *)
(***************************************************************************)
VisibleNodesNoIncrement(ids, labels, hidden) ==
    LET RECURSIVE Loop(_, _)
        Loop(i, acc) ==
            IF i = Len(ids) THEN acc
            ELSE IF i \notin hidden
            THEN Loop(i + 1, [visible_node_ids |-> Append(acc.visible_node_ids, ids[i + 1]),
                              visible_node_labels |-> Append(acc.visible_node_labels, labels[i + 1]),
                              old_to_new_index |-> (i :> acc.new_index) @@ acc.old_to_new_index,
                              new_index |-> acc.new_index])
            ELSE Loop(i + 1, acc)
    IN  Loop(0, [visible_node_ids |-> <<>>, visible_node_labels |-> <<>>,
                 old_to_new_index |-> <<>>, new_index |-> 0])

\* The loop of lines 60-65 over enumerate(zip(node_ids, node_labels)).
VisibleNodes(ids, labels, hidden) ==
    LET RECURSIVE Loop(_, _)
        Loop(i, acc) ==
            IF i = Len(ids) THEN acc
            ELSE IF i \notin hidden
            THEN Loop(i + 1, [visible_node_ids |-> Append(acc.visible_node_ids, ids[i + 1]),
                              visible_node_labels |-> Append(acc.visible_node_labels, labels[i + 1]),
                              old_to_new_index |-> (i :> acc.new_index) @@ acc.old_to_new_index,
                              new_index |-> acc.new_index + 1])
            ELSE Loop(i + 1, acc)
    IN  Loop(0, [visible_node_ids |-> <<>>, visible_node_labels |-> <<>>,
                 old_to_new_index |-> <<>>, new_index |-> 0])

KeepLinkEither(source_idx, target_idx, hidden) ==
    source_idx \notin hidden \/ target_idx \notin hidden

KeepLink(source_idx, target_idx, hidden) ==
    source_idx \notin hidden /\ target_idx \notin hidden

\* The filter merging parallel links: a link already kept is not kept again.
FilterLinksMerged(srcs, tgts, vals, hidden, o2n) ==
    LET RECURSIVE Loop(_, _)
        Loop(k, acc) ==
            IF k > Len(srcs) \/ acc.line # 0 THEN acc
            ELSE IF /\ KeepLink(srcs[k], tgts[k], hidden)
                    /\ ~\E j \in 1..(k - 1) : srcs[j] = srcs[k] /\ tgts[j] = tgts[k]
            THEN IF srcs[k] \notin DOMAIN o2n THEN [acc EXCEPT !.line = 75]
                 ELSE IF tgts[k] \notin DOMAIN o2n THEN [acc EXCEPT !.line = 76]
                 ELSE Loop(k + 1, [acc EXCEPT !.sources = Append(@, o2n[srcs[k]]),
                                              !.targets = Append(@, o2n[tgts[k]]),
                                              !.values = Append(@, vals[k])])
            ELSE Loop(k + 1, acc)
    IN  Loop(1, [sources |-> <<>>, targets |-> <<>>, values |-> <<>>, line |-> 0])

\* The loop of lines 72-77 over zip(all_sources, all_targets, all_values).
FilterLinks(srcs, tgts, vals, hidden, o2n) ==
    LET RECURSIVE Loop(_, _)
        Loop(k, acc) ==
            IF k > Len(srcs) \/ acc.line # 0 THEN acc
            ELSE IF KeepLink(srcs[k], tgts[k], hidden)
            THEN IF srcs[k] \notin DOMAIN o2n THEN [acc EXCEPT !.line = 75]
                 ELSE IF tgts[k] \notin DOMAIN o2n THEN [acc EXCEPT !.line = 76]
                 ELSE Loop(k + 1, [acc EXCEPT !.sources = Append(@, o2n[srcs[k]]),
                                              !.targets = Append(@, o2n[tgts[k]]),
                                              !.values = Append(@, vals[k])])
            ELSE Loop(k + 1, acc)
    IN  Loop(1, [sources |-> <<>>, targets |-> <<>>, values |-> <<>>, line |-> 0])

(***************************************************************************)
(* Annotator (lines 79-131).                                               *)
(***************************************************************************)
InRange(i, s) == 0 <= i /\ i < Len(s)

\* The loop of lines 81-85; line is the line that raised IndexError, or 0.
LinkHover(srcs, tgts, vals, vlabels) ==
    LET RECURSIVE Loop(_, _)
        Loop(k, acc) ==
            IF k > Len(srcs) \/ acc.line # 0 THEN acc
            ELSE IF ~InRange(srcs[k], vlabels) THEN [acc EXCEPT !.line = 82]
            ELSE IF ~InRange(tgts[k], vlabels) THEN [acc EXCEPT !.line = 83]
            ELSE Loop(k + 1, [acc EXCEPT !.hover_labels =
                                 Append(@, <<Part("Z", vlabels[srcs[k] + 1], 0),
                                             Part("Do", vlabels[tgts[k] + 1], 0),
                                             Part("Kwota", "", vals[k])>>)])
    IN  Loop(1, [hover_labels |-> <<>>, line |-> 0])

\* Python's None, for an index.
None == -1

\* Lines 93-97: the first key of old_to_new_index (in insertion order, which
\* is increasing order) whose value is node_idx.
OriginalIdx(o2n, node_idx) ==
    IF \E o \in DOMAIN o2n : o2n[o] = node_idx
    THEN CHOOSE o \in DOMAIN o2n :
            o2n[o] = node_idx /\ \A p \in DOMAIN o2n : o2n[p] = node_idx => o <= p
    ELSE None

\* Lines 100-107 (keys = all_targets, others = all_sources) and lines 110-117
\* (keys = all_sources, others = all_targets): the itemized list and its sum.
Flows(original_idx, keys, others, vals, labels) ==
    LET RECURSIVE Loop(_, _)
        Loop(i, acc) ==
            IF i = Len(keys) THEN acc
            ELSE IF keys[i + 1] = original_idx
            THEN Loop(i + 1, [items |-> Append(acc.items,
                                         Part("item", labels[others[i + 1] + 1], vals[i + 1])),
                              total |-> acc.total + vals[i + 1]])
            ELSE Loop(i + 1, acc)
    IN  Loop(0, [items |-> <<>>, total |-> 0])

\* total = max(total_incoming, total_outgoing)
Total(total_incoming, total_outgoing) ==
    IF total_incoming >= total_outgoing THEN total_incoming ELSE total_outgoing

\* Lines 123-131.
HoverParts(node_name, total, incoming, outgoing) ==
    <<Part("b", node_name, total)>>
    \o (IF incoming # <<>> THEN <<Part("Wplywy", "", 0)>> \o incoming ELSE <<>>)
    \o (IF outgoing # <<>> THEN <<Part("Wyplywy", "", 0)>> \o outgoing ELSE <<>>)

\* The loop body reading the filtered, reindexed links instead of the original ones.
NodeFlowFromFiltered(o2n, node_idx, vlabels, labels, srcs, tgts, vals) ==
    LET original_idx == OriginalIdx(o2n, node_idx)
        in == Flows(node_idx, targets, sources, values, vlabels)
        out == Flows(node_idx, sources, targets, values, vlabels)
        total == Total(in.total, out.total)
    IN  [original_idx |-> original_idx,
         incoming |-> in.items, total_incoming |-> in.total,
         outgoing |-> out.items, total_outgoing |-> out.total,
         total |-> total,
         hover |-> HoverParts(vlabels[node_idx + 1], total, in.items, out.items)]

\* One iteration of the loop of lines 89-131.
NodeFlow(o2n, node_idx, vlabels, labels, srcs, tgts, vals) ==
    LET original_idx == OriginalIdx(o2n, node_idx)
        in == Flows(original_idx, tgts, srcs, vals, labels)
        out == Flows(original_idx, srcs, tgts, vals, labels)
        total == Total(in.total, out.total)
    IN  [original_idx |-> original_idx,
         incoming |-> in.items, total_incoming |-> in.total,
         outgoing |-> out.items, total_outgoing |-> out.total,
         total |-> total,
         hover |-> HoverParts(vlabels[node_idx + 1], total, in.items, out.items)]

\* The node dict and the link dict of go.Sankey (lines 146-165).
Figure(vlabels, node_hover, srcs, tgts, vals, link_hover) ==
    [label |-> vlabels,
     color |-> [i \in 1..Len(vlabels) |-> (i - 1) % PaletteSize],
     node_customdata |-> node_hover,
     source |-> srcs, target |-> tgts, value |-> vals,
     link_customdata |-> link_hover]

(***************************************************************************)
(* The script, stage by stage.                                             *)
(***************************************************************************)
Init ==
    /\ Doc(data)
    /\ pc = "mappings"
    /\ raised = 0
    /\ stdout = <<>>
    /\ node_ids = <<>> /\ node_labels = <<>> /\ node_id_to_index = <<>>
    /\ li = 0
    /\ all_sources = <<>> /\ all_targets = <<>> /\ all_values = <<>>
    /\ leftmost_nodes = {} /\ rightmost_nodes = {} /\ hidden_nodes = {}
    /\ visible_node_ids = <<>> /\ visible_node_labels = <<>> /\ old_to_new_index = <<>>
    /\ sources = <<>> /\ targets = <<>> /\ values = <<>>
    /\ hover_labels = <<>> /\ node_flows = <<>> /\ node_hover_labels = <<>>
    /\ output_file = <<>>

\* An uncaught exception at the given line ends the script.
Raise(line) == pc' = "aborted" /\ raised' = line

\* Lines 13-15.
CreateMappings ==
    /\ pc = "mappings"
    /\ IF ~Has(data, "nodes")
       THEN Raise(13) /\ UNCHANGED loaderVars
       ELSE IF \E i \in 1..Len(data.nodes) : ~Has(data.nodes[i], "id")
       THEN Raise(13) /\ UNCHANGED loaderVars
       ELSE IF \E i \in 1..Len(data.nodes) : ~Has(data.nodes[i], "name")
       THEN Raise(14) /\ UNCHANGED loaderVars
       ELSE /\ node_ids' = [i \in 1..Len(data.nodes) |-> data.nodes[i].id]
            /\ node_labels' = [i \in 1..Len(data.nodes) |-> data.nodes[i].name]
            /\ node_id_to_index' = NodeIdToIndex(node_ids')
            /\ pc' = "links"
            /\ raised' = raised
    /\ UNCHANGED <<data, stdout, linkVars, classVars, reduceVars, annotVars, output_file>>

\* Line 22 on a document without links, or one iteration of lines 22-36.
LinkLoop ==
    /\ pc = "links"
    /\ IF Has(data, "links") THEN li < Len(data.links) ELSE TRUE
    /\ IF ~Has(data, "links")
       THEN Raise(22) /\ UNCHANGED <<stdout, linkVars>>
       ELSE LET link == data.links[li + 1] IN
            IF ~Has(link, "source") THEN Raise(23) /\ UNCHANGED <<stdout, linkVars>>
            ELSE IF ~Has(link, "target") THEN Raise(24) /\ UNCHANGED <<stdout, linkVars>>
            ELSE IF ~Has(link, "value") THEN Raise(25) /\ UNCHANGED <<stdout, linkVars>>
            ELSE LET r == ResolveLink([all_sources |-> all_sources, all_targets |-> all_targets,
                                       all_values |-> all_values, out |-> stdout, line |-> 0],
                                      link, node_id_to_index)
                 IN  /\ stdout' = r.out
                     /\ all_sources' = r.all_sources
                     /\ all_targets' = r.all_targets
                     /\ all_values' = r.all_values
                     /\ IF r.line # 0
                        THEN Raise(r.line) /\ li' = li
                        ELSE li' = li + 1 /\ UNCHANGED <<pc, raised>>
    /\ UNCHANGED <<data, loaderVars, classVars, reduceVars, annotVars, output_file>>

\* Lines 38-52, once the link loop is over.
Classify ==
    /\ pc = "links"
    /\ Has(data, "links") /\ li = Len(data.links)
    /\ LET c == LeafNodes(Len(node_ids), all_sources, all_targets)
       IN  /\ leftmost_nodes' = c.leftmost
           /\ rightmost_nodes' = c.rightmost
           /\ hidden_nodes' = c.hidden
           /\ stdout' = stdout \o Report(c.hidden, c.leftmost, c.rightmost)
    /\ pc' = "reduce"
    /\ UNCHANGED <<data, raised, loaderVars, linkVars, reduceVars, annotVars, output_file>>

\* Lines 54-77.
Reduce ==
    /\ pc = "reduce"
    /\ LET v == VisibleNodes(node_ids, node_labels, hidden_nodes)
           f == FilterLinks(all_sources, all_targets, all_values, hidden_nodes,
                            v.old_to_new_index)
       IN  /\ visible_node_ids' = v.visible_node_ids
           /\ visible_node_labels' = v.visible_node_labels
           /\ old_to_new_index' = v.old_to_new_index
           /\ sources' = f.sources
           /\ targets' = f.targets
           /\ values' = f.values
           /\ IF f.line # 0 THEN Raise(f.line) ELSE pc' = "annotate" /\ raised' = raised
    /\ UNCHANGED <<data, stdout, loaderVars, linkVars, classVars, annotVars, output_file>>

\* The loop of lines 88-131.
NodeFlows(o2n, vlabels, labels, srcs, tgts, vals) ==
    [node_idx1 \in 1..Len(vlabels) |->
        NodeFlow(o2n, node_idx1 - 1, vlabels, labels, srcs, tgts, vals)]

\* Lines 79-131.
Annotate ==
    /\ pc = "annotate"
    /\ LET h == LinkHover(sources, targets, values, visible_node_labels)
       IN  /\ hover_labels' = h.hover_labels
           /\ IF h.line # 0
              THEN Raise(h.line) /\ UNCHANGED <<node_flows, node_hover_labels>>
              ELSE /\ node_flows' = NodeFlows(old_to_new_index, visible_node_labels,
                                              node_labels, all_sources, all_targets, all_values)
                   /\ node_hover_labels' =
                         [k \in 1..Len(node_flows') |-> node_flows'[k].hover]
                   /\ pc' = "render"
                   /\ raised' = raised
    /\ UNCHANGED <<data, stdout, loaderVars, linkVars, classVars, reduceVars, output_file>>

\* Lines 133-183.
Render ==
    /\ pc = "render"
    /\ output_file' = <<Figure(visible_node_labels, node_hover_labels,
                               sources, targets, values, hover_labels)>>
    /\ stdout' = stdout \o <<Line("Saved", "", "", 0), Line("Open", "", "", 0)>>
    /\ pc' = "done"
    /\ UNCHANGED <<data, raised, loaderVars, linkVars, classVars, reduceVars, annotVars>>

Next == CreateMappings \/ LinkLoop \/ Classify \/ Reduce \/ Annotate \/ Render

Spec == Init /\ [][Next]_vars

(***************************************************************************)
(* What the input says, read off the document itself.                      *)
(***************************************************************************)
HasAllFields(d) ==
    /\ Has(d, "nodes") /\ Has(d, "links")
    /\ \A i \in 1..Len(d.nodes) : Has(d.nodes[i], "id") /\ Has(d.nodes[i], "name")
    /\ \A k \in 1..Len(d.links) :
          Has(d.links[k], "source") /\ Has(d.links[k], "target") /\ Has(d.links[k], "value")

NodeCount == Len(data.nodes)
AllIdx == 0..(NodeCount - 1)
KnownId(id) == \E i \in 1..NodeCount : data.nodes[i].id = id
IndexOfId(id) == CHOOSE i \in AllIdx : data.nodes[i + 1].id = id
ValidLink(link) == KnownId(link.source) /\ KnownId(link.target)
InvalidLink(link) == ~ValidLink(link)

\* The resolved links: the links with two known endpoints, in input order.
ResolvedOf(links) ==
    LET valid == SelectSeq(links, ValidLink)
    IN  [k \in 1..Len(valid) |->
            [s |-> IndexOfId(valid[k].source), t |-> IndexOfId(valid[k].target),
             v |-> valid[k].value]]
Resolved == ResolvedOf(data.links)

HasIn(R, i) == \E k \in 1..Len(R) : R[k].t = i
HasOut(R, i) == \E k \in 1..Len(R) : R[k].s = i
IsolatedIn(R) == {i \in AllIdx : ~HasIn(R, i) /\ ~HasOut(R, i)}
Isolated == IsolatedIn(Resolved)

Classified == pc \in {"reduce", "annotate", "render", "done"}
Reduced == pc \in {"annotate", "render", "done"}
Annotated == pc \in {"render", "done"}

VisibleCount == Len(visible_node_ids)

ThmC2 ==
    /\ raised \notin {75, 76, 82, 83}
    /\ Reduced =>
          /\ Len(sources) = Len(targets) /\ Len(sources) = Len(values)
          /\ \A k \in 1..Len(sources) :
                /\ 0 <= sources[k] /\ sources[k] < VisibleCount
                /\ 0 <= targets[k] /\ targets[k] < VisibleCount
    /\ Annotated => Len(hover_labels) = Len(sources)

\* A kept link whose endpoints moved to a new index, with its hover text built.
WitC2 ==
    /\ Annotated
    /\ \E k \in 1..Len(sources) : \E j \in 1..Len(all_sources) :
          /\ old_to_new_index[all_sources[j]] = sources[k]
          /\ all_sources[j] # sources[k]
    /\ hover_labels # <<>>

(***************************************************************************)
(* C3: the filtered links are exactly the resolved links whose two         *)
(* endpoints are not hidden, in the same order, with the same values,      *)
(* parallel links kept apart, each endpoint mapped through                 *)
(* old_to_new_index.                                                       *)
(***************************************************************************)
BothVisible(r) == r.s \notin hidden_nodes /\ r.t \notin hidden_nodes

ThmC3 ==
    Reduced =>
        LET kept == SelectSeq(Resolved, BothVisible)
        IN  /\ Len(sources) = Len(kept)
            /\ Len(targets) = Len(kept)
            /\ Len(values) = Len(kept)
            /\ \A k \in 1..Len(kept) :
                  /\ sources[k] = old_to_new_index[kept[k].s]
                  /\ targets[k] = old_to_new_index[kept[k].t]
                  /\ values[k] = kept[k].v

\* Two parallel links of different value between visible nodes, both kept,
\* in a graph that also has a hidden node.
WitC3 ==
    /\ Reduced
    /\ hidden_nodes # {}
    /\ Len(sources) = 2
    /\ sources[1] = sources[2] /\ targets[1] = targets[2]
    /\ values[1] # values[2]

(***************************************************************************)
(* C4: the visible nodes are the nodes whose index is not hidden, in the   *)
(* original order; old_to_new_index is defined exactly on the visible      *)
(* indices, is strictly increasing and onto 0..len(visible)-1, and the     *)
(* visible node at old_to_new_index[o] is node o; the visible and the      *)
(* hidden nodes add up to the nodes.  The annotator's reverse lookup finds *)
(* the original index.                                                     *)
(***************************************************************************)
ThmC4 ==
    /\ Reduced =>
          /\ DOMAIN old_to_new_index = AllIdx \ hidden_nodes
          /\ \A o, p \in DOMAIN old_to_new_index :
                o < p => old_to_new_index[o] < old_to_new_index[p]
          /\ {old_to_new_index[o] : o \in DOMAIN old_to_new_index} = 0..(VisibleCount - 1)
          /\ Len(visible_node_labels) = VisibleCount
          /\ \A o \in DOMAIN old_to_new_index :
                /\ visible_node_ids[old_to_new_index[o] + 1] = data.nodes[o + 1].id
                /\ visible_node_labels[old_to_new_index[o] + 1] = data.nodes[o + 1].name
          /\ VisibleCount + Cardinality(hidden_nodes) = NodeCount
    /\ Annotated =>
          /\ Len(node_flows) = VisibleCount
          /\ \A v \in 1..VisibleCount :
                /\ node_flows[v].original_idx \in DOMAIN old_to_new_index
                /\ old_to_new_index[node_flows[v].original_idx] = v - 1

\* Two visible nodes behind a hidden one: every visible index has moved.
WitC4 ==
    /\ Annotated
    /\ VisibleCount >= 2
    /\ \A o \in DOMAIN old_to_new_index : old_to_new_index[o] # o

(***************************************************************************)
(* C5: the figures of a visible node come from the resolved links,         *)
(* whatever the visibility of the other endpoint: total_incoming is the    *)
(* sum of the values of the resolved links into the node, total_outgoing   *)
(* the sum of those out of it, the itemized lists hold those links in      *)
(* input order under the original labels, and the total of the summary is  *)
(* the larger of the two sums.                                             *)
(***************************************************************************)
LinksInto(R, o) == {k \in 1..Len(R) : R[k].t = o}
LinksOutOf(R, o) == {k \in 1..Len(R) : R[k].s = o}

RECURSIVE SumOfValues(_, _)
SumOfValues(R, ks) ==
    IF ks = {} THEN 0
    ELSE LET k == CHOOSE x \in ks : TRUE IN R[k].v + SumOfValues(R, ks \ {k})

\* The j-th smallest member of ks.
Nth(ks, j) == CHOOSE k \in ks : Cardinality({x \in ks : x <= k}) = j

\* The links ks as summary lines naming the node at the other end.
ItemsFrom(R, ks) ==
    [j \in 1..Cardinality(ks) |->
        Part("item", data.nodes[R[Nth(ks, j)].s + 1].name, R[Nth(ks, j)].v)]
ItemsTo(R, ks) ==
    [j \in 1..Cardinality(ks) |->
        Part("item", data.nodes[R[Nth(ks, j)].t + 1].name, R[Nth(ks, j)].v)]

\* The original index of the visible node at new index v.
OldIndexOf(v) == CHOOSE o \in AllIdx \ hidden_nodes :
                    Cardinality({p \in AllIdx \ hidden_nodes : p < o}) = v

ThmC5 ==
    Annotated =>
        LET R == Resolved IN
        \A v \in 0..(VisibleCount - 1) :
            LET o == OldIndexOf(v)
                f == node_flows[v + 1]
                into == LinksInto(R, o)
                outof == LinksOutOf(R, o)
                in == SumOfValues(R, into)
                out == SumOfValues(R, outof)
            IN  /\ f.total_incoming = in
                /\ f.total_outgoing = out
                /\ f.incoming = ItemsFrom(R, into)
                /\ f.outgoing = ItemsTo(R, outof)
                /\ f.total >= in /\ f.total >= out /\ f.total \in {in, out}
                /\ node_hover_labels[v + 1][1] = Part("b", data.nodes[o + 1].name, f.total)

\* A visible node whose sums differ and count a link from or to a hidden node.
WitC5 ==
    /\ Annotated
    /\ \E v \in 0..(VisibleCount - 1) :
          /\ node_flows[v + 1].total_incoming # node_flows[v + 1].total_outgoing
          /\ \E k \in 1..Len(Resolved) :
                /\ Resolved[k].v > 0
                /\ \/ Resolved[k].t = OldIndexOf(v) /\ Resolved[k].s \in hidden_nodes
                   \/ Resolved[k].s = OldIndexOf(v) /\ Resolved[k].t \in hidden_nodes

(***************************************************************************)
(* C6: a link with an unknown endpoint costs exactly one warning, is left  *)
(* out of the resolved links and does not end the run; what the run        *)
(* produces is what it produces from the input without those links.        *)
(***************************************************************************)
Warnings == SelectSeq(stdout, LAMBDA l : l.kind = "Warning")

\* The whole script on a document that has all its fields.
RECURSIVE LoadLinks(_, _, _)
LoadLinks(links, idx, acc) ==
    IF links = <<>> \/ acc.line # 0 THEN acc
    ELSE LoadLinks(Tail(links), idx, ResolveLink(acc, Head(links), idx))

RunOn(d) ==
    LET ids == [i \in 1..Len(d.nodes) |-> d.nodes[i].id]
        labels == [i \in 1..Len(d.nodes) |-> d.nodes[i].name]
        l == LoadLinks(d.links, NodeIdToIndex(ids),
                       [all_sources |-> <<>>, all_targets |-> <<>>, all_values |-> <<>>,
                        out |-> <<>>, line |-> 0])
        c == LeafNodes(Len(ids), l.all_sources, l.all_targets)
        v == VisibleNodes(ids, labels, c.hidden)
        f == FilterLinks(l.all_sources, l.all_targets, l.all_values, c.hidden,
                         v.old_to_new_index)
        h == LinkHover(f.sources, f.targets, f.values, v.visible_node_labels)
        nf == NodeFlows(v.old_to_new_index, v.visible_node_labels, labels,
                        l.all_sources, l.all_targets, l.all_values)
    IN  [hidden |-> c.hidden,
         visible_node_ids |-> v.visible_node_ids,
         visible_node_labels |-> v.visible_node_labels,
         sources |-> f.sources, targets |-> f.targets, values |-> f.values,
         hover_labels |-> h.hover_labels,
         node_hover_labels |-> [k \in 1..Len(nf) |-> nf[k].hover],
         warnings |-> l.out]

WithoutInvalidLinks(d) == [d EXCEPT !.links = SelectSeq(d.links, ValidLink)]

ThmC6 ==
    /\ raised # 0 => ~HasAllFields(data)
    /\ (pc \notin {"mappings", "aborted"} /\ Has(data, "links")) =>
          LET seen == SubSeq(data.links, 1, li)
              invalid == SelectSeq(seen, InvalidLink)
          IN  /\ Len(Warnings) = Len(invalid)
              /\ \A k \in 1..Len(invalid) :
                    Warnings[k] = Line("Warning", invalid[k].source, invalid[k].target, 0)
              /\ Len(all_sources) = li - Len(invalid)
              /\ LET R == ResolvedOf(seen)
                 IN  \A k \in 1..Len(all_sources) :
                        /\ all_sources[k] = R[k].s
                        /\ all_targets[k] = R[k].t
                        /\ all_values[k] = R[k].v
    /\ pc = "done" =>
          LET clean == RunOn(WithoutInvalidLinks(data))
          IN  /\ clean.warnings = <<>>
              /\ hidden_nodes = clean.hidden
              /\ visible_node_ids = clean.visible_node_ids
              /\ visible_node_labels = clean.visible_node_labels
              /\ sources = clean.sources /\ targets = clean.targets /\ values = clean.values
              /\ hover_labels = clean.hover_labels
              /\ node_hover_labels = clean.node_hover_labels

\* A finished run that skipped a link with an unknown target and kept a link
\* between visible nodes.
WitC6 ==
    /\ pc = "done"
    /\ Len(Warnings) >= 1
    /\ \E k \in 1..Len(data.links) : ~KnownId(data.links[k].target)
    /\ sources # <<>>

(***************************************************************************)
(* C7: a document that lacks a collection or a field ends the run with     *)
(* nothing produced: no figure, no warning line, no report line.           *)
(***************************************************************************)
CexC7 ==
    (pc = "aborted" /\ ~HasAllFields(data)) => (stdout = <<>> /\ output_file = <<>>)

(***************************************************************************)
(* C8: when every node is hidden (no node is both the target of a resolved *)
(* link and the source of one), no exception is raised and the visible     *)
(* nodes, the filtered links and both hover arrays are empty.              *)
(***************************************************************************)
AllHidden == LET R == Resolved IN \A i \in AllIdx : ~(HasIn(R, i) /\ HasOut(R, i))

ThmC8 ==
    (HasAllFields(data) /\ AllHidden) =>
        /\ raised = 0 /\ pc # "aborted"
        /\ Reduced =>
              /\ visible_node_ids = <<>> /\ visible_node_labels = <<>>
              /\ sources = <<>> /\ targets = <<>> /\ values = <<>>
        /\ Annotated => hover_labels = <<>> /\ node_hover_labels = <<>>
        /\ pc = "done" =>
              /\ Len(output_file) = 1
              /\ output_file[1].label = <<>> /\ output_file[1].source = <<>>

\* The two-node graph with the one link A -> B, run to its end.
WitC8 ==
    /\ pc = "done"
    /\ NodeCount = 2
    /\ all_sources = <<0>> /\ all_targets = <<1>>
    /\ visible_node_ids = <<>>

(***************************************************************************)
(* C9: leftmost and rightmost share exactly the nodes without resolved     *)
(* links, so the two counts of the report add up to the hidden count plus  *)
(* the number of such nodes: to the hidden count iff there is none.        *)
(***************************************************************************)
Reported(kind) == (CHOOSE k \in 1..Len(stdout) : stdout[k].kind = kind)

ThmC10 ==
    Annotated =>
        \A v \in 1..VisibleCount :
            /\ node_flows[v].incoming # <<>>
            /\ node_flows[v].outgoing # <<>>
            /\ \E k \in 1..Len(node_hover_labels[v]) :
                  node_hover_labels[v][k] = Part("Wplywy", "", 0)
            /\ \E k \in 1..Len(node_hover_labels[v]) :
                  node_hover_labels[v][k] = Part("Wyplywy", "", 0)

\* A visible node all of whose neighbours are hidden.
WitC10 ==
    /\ Annotated
    /\ VisibleCount >= 1
    /\ sources = <<>>

====
